---- MODULE Spec2Model ----
(***************************************************************************)
(* PingPilot: the check orchestrator (app/main.py run_check), the          *)
(* scheduler (app/scheduler.py), the management operations that touch the  *)
(* store and the scheduler (create / run / toggle / delete), the block     *)
(* diff and relevance filter (app/extractor.py) and the rule classifier    *)
(* (app/monitor_core.py).                                                  *)
(*                                                                         *)
(* Texts are sequences of tokens (words and whitespace separators); a      *)
(* SHA-256 digest is the tagged value <<"sha256", x>> (injective, never    *)
(* the empty string); a JSON document is the tagged value <<"json", x>>.   *)
(* The empty string "" of a text or a digest column is the empty sequence. *)
(***************************************************************************)
EXTENDS Integers, Sequences, FiniteSets, TLC

\* ------------------------------------------------------------------ bounds
MaxId == 1        \* monitor ids are 1..MaxId
MaxRuns == 2      \* run_check invocations in one behaviour
MaxMissed == 2    \* timer fires skipped while one scheduled run is executing
MaxClsLen == 2    \* tokens in a text given to classify_material_change
MaxDiffLen == 2   \* blocks in a list given to diff_blocks
MaxFilterLen == 3 \* blocks in the added list given to filter_relevant
MaxOtherLen == 1  \* blocks in the removed and modified lists given to filter_relevant
MaxKeep == 2      \* keep_max is 0..MaxKeep

Ids == 1..MaxId
Runs == 1..MaxRuns

\* ------------------------------------------------------------------ values
EmptyStr == << >>
None == <<"None">>

Sha256(x) == <<"sha256", x>>
JsonDumps(x) == <<"json", x>>
JsonLoads(j) == j[2]

WhiteSpace == {" ", "\n"}

\* re.sub(r"\s+", " ", s).strip()
RECURSIVE CollapseWs(_)
CollapseWs(s) ==
  IF Len(s) = 0 THEN << >>
  ELSE IF Head(s) \in WhiteSpace
       THEN IF Len(s) > 1 /\ s[2] \in WhiteSpace
            THEN CollapseWs(Tail(s))
            ELSE <<" ">> \o CollapseWs(Tail(s))
       ELSE <<Head(s)>> \o CollapseWs(Tail(s))

Strip(s) ==
  LET a == IF Len(s) > 0 /\ s[1] \in WhiteSpace THEN Tail(s) ELSE s
  IN  IF Len(a) > 0 /\ a[Len(a)] \in WhiteSpace THEN SubSeq(a, 1, Len(a) - 1) ELSE a

normalize_text_block(s) == Strip(CollapseWs(s))

text_hash(text) == Sha256(text)

\* the screenshot is its 64x64 grey pixel buffer; the digest is of that buffer
image_hash(png) == Sha256(png)

\* monitor_core.py:7
VISUAL_HAMMING_THRESHOLD == 8

\* monitor_core.py:64-73: the set of positions whose pixel is above the mean
\* (the bits of the signature); no image gives the signature 0
ahash(image_bytes) ==
  IF Len(image_bytes) = 0 THEN {}
  ELSE LET SumTo[i \in 0..Len(image_bytes)] ==
             IF i = 0 THEN 0 ELSE SumTo[i - 1] + image_bytes[i]
       IN  {i \in 1..Len(image_bytes) :
              image_bytes[i] * Len(image_bytes) > SumTo[Len(image_bytes)]}

\* monitor_core.py:75-76: popcount of the XOR
hamming64(a, b) == Cardinality((a \ b) \cup (b \ a))

\* characters in a token
TokLen(t) ==
  CASE t = "Sale" -> 4
    [] t = "News" -> 4
    [] t = "$10" -> 3
    [] t = "$20" -> 3
    [] t = "Jan" -> 3
    [] t = "in stock" -> 8
    [] t = "buy now" -> 7
    [] t = "Summer collection" -> 17
    [] OTHER -> 1

RECURSIVE TextLen(_)
TextLen(s) == IF Len(s) = 0 THEN 0 ELSE TokLen(Head(s)) + TextLen(Tail(s))

\* the characters of a token
Chars(t) ==
  CASE t = "Sale" -> <<"S", "a", "l", "e">>
    [] t = "News" -> <<"N", "e", "w", "s">>
    [] t = "$10" -> <<"$", "1", "0">>
    [] t = "$20" -> <<"$", "2", "0">>
    [] t = "Jan" -> <<"J", "a", "n">>
    [] t = "in stock" -> <<"i", "n", " ", "s", "t", "o", "c", "k">>
    [] t = "buy now" -> <<"b", "u", "y", " ", "n", "o", "w">>
    [] OTHER -> <<t>>

RECURSIVE CharsOf(_)
CharsOf(s) == IF Len(s) = 0 THEN << >> ELSE Chars(Head(s)) \o CharsOf(Tail(s))

\* difflib.SequenceMatcher.find_longest_match on a[alo..ahi], b[blo..bhi]: the
\* longest common block, the earliest in a, then the earliest in b (no junk;
\* the popularity heuristic needs 200 characters)
LongestMatches(a, b, alo, ahi, blo, bhi) ==
  LET all == {m \in (alo..ahi) \X (blo..bhi) \X (1..(ahi - alo + 1)) :
                /\ m[1] + m[3] - 1 <= ahi
                /\ m[2] + m[3] - 1 <= bhi
                /\ SubSeq(a, m[1], m[1] + m[3] - 1) = SubSeq(b, m[2], m[2] + m[3] - 1)}
  IN  {m \in all : \A n \in all :
         \/ m[3] > n[3]
         \/ m[3] = n[3] /\ m[1] < n[1]
         \/ m[3] = n[3] /\ m[1] = n[1] /\ m[2] <= n[2]}

\* the sum of the sizes of get_matching_blocks
RECURSIVE MatchTotal(_, _, _, _, _, _)
MatchTotal(a, b, alo, ahi, blo, bhi) ==
  IF alo > ahi \/ blo > bhi THEN 0
  ELSE LET best == LongestMatches(a, b, alo, ahi, blo, bhi)
       IN  IF best = {} THEN 0
           ELSE LET m == CHOOSE x \in best : TRUE
                IN  m[3] + MatchTotal(a, b, alo, m[1] - 1, blo, m[2] - 1)
                         + MatchTotal(a, b, m[1] + m[3], ahi, m[2] + m[3], bhi)

RECURSIVE Gcd(_, _)
Gcd(x, y) == IF y = 0 THEN x ELSE Gcd(y, x % y)

\* a float as the fraction <<numerator, denominator>> in lowest terms
Frac(n, d) == LET g == Gcd(n, d) IN <<n \div g, d \div g>>
Zero == Frac(0, 1)

\* SequenceMatcher(a=old, b=new).ratio(): 2.0 * matches / length, 1.0 for two
\* empty strings
SequenceRatio(old, new) ==
  LET a == CharsOf(old)
      b == CharsOf(new)
  IN  IF Len(a) + Len(b) = 0 THEN Frac(1, 1)
      ELSE Frac(2 * MatchTotal(a, b, 1, Len(a), 1, Len(b)), Len(a) + Len(b))

\* ------------------------------------------------------------------ blocks
block(text, type_, path, weight) ==
  [type |-> type_, text |-> text, path |-> path, weight |-> weight, hash |-> Sha256(text)]

\* a de-duplication in which the last block of a (type, text) pair wins
RECURSIVE Uniq_LastWins(_, _)
Uniq_LastWins(blocks, seen) ==
  IF Len(blocks) = 0 THEN << >>
  ELSE LET b == Head(blocks)
           later == {<<Tail(blocks)[i].type, Tail(blocks)[i].text>> : i \in 1..(Len(blocks) - 1)}
       IN  IF <<b.type, b.text>> \in later THEN Uniq_LastWins(Tail(blocks), seen)
           ELSE <<b>> \o Uniq_LastWins(Tail(blocks), seen)

\* the de-duplication that ends extract_blocks_from_html: first (type, text) wins
RECURSIVE Uniq(_, _)
Uniq(blocks, seen) ==
  IF Len(blocks) = 0 THEN << >>
  ELSE LET b == Head(blocks)
           k == <<b.type, b.text>>
       IN  IF k \in seen THEN Uniq(Tail(blocks), seen)
           ELSE <<b>> \o Uniq(Tail(blocks), seen \cup {k})

\* html is the sequence of candidate blocks the selectors and scans produce
extract_blocks_from_html(html) == Uniq(html, {})

\* keys of index_blocks, in insertion order
RECURSIVE PathsOf(_, _)
PathsOf(blocks, seen) ==
  IF Len(blocks) = 0 THEN << >>
  ELSE LET p == Head(blocks).path
       IN  IF p \in seen THEN PathsOf(Tail(blocks), seen)
           ELSE <<p>> \o PathsOf(Tail(blocks), seen \cup {p})

\* index_blocks(blocks)[path]
AtPath(blocks, path) == SelectSeq(blocks, LAMBDA b : b.path = path)

HasPath(blocks, path) == \E i \in 1..Len(blocks) : blocks[i].path = path

RECURSIVE DiffCurr(_, _, _, _)
\* first loop of diff_blocks: kind "added" or "modified"
DiffCurr(paths, prev, curr, kind) ==
  IF Len(paths) = 0 THEN << >>
  ELSE LET path == Head(paths)
           cur_blocks == AtPath(curr, path)
           pv == AtPath(prev, path)
           prev_hashes == {pv[i].hash : i \in 1..Len(pv)}
           here == IF Len(pv) = 0
                   THEN IF kind = "added" THEN cur_blocks ELSE << >>
                   ELSE IF kind = "modified"
                        THEN SelectSeq(cur_blocks, LAMBDA cb : cb.hash \notin prev_hashes)
                        ELSE << >>
       IN  here \o DiffCurr(Tail(paths), prev, curr, kind)

RECURSIVE DiffPrev(_, _, _)
\* second loop of diff_blocks
DiffPrev(paths, prev, curr) ==
  IF Len(paths) = 0 THEN << >>
  ELSE LET path == Head(paths)
           here == IF HasPath(curr, path) THEN << >> ELSE AtPath(prev, path)
       IN  here \o DiffPrev(Tail(paths), prev, curr)

\* modified by pairing the blocks of a path position by position
diff_blocks_Positional(prev, curr) ==
  LET PosIn(i) == Cardinality({j \in 1..i : curr[j].path = curr[i].path})
      pvOf(i) == AtPath(prev, curr[i].path)
      S == {i \in 1..Len(curr) :
              /\ HasPath(prev, curr[i].path)
              /\ (PosIn(i) > Len(pvOf(i)) \/ pvOf(i)[PosIn(i)].hash # curr[i].hash)}
      Nth(k) == CHOOSE i \in S : Cardinality({j \in S : j <= i}) = k
  IN  [added    |-> DiffCurr(PathsOf(curr, {}), prev, curr, "added"),
       removed  |-> DiffPrev(PathsOf(prev, {}), prev, curr),
       modified |-> [k \in 1..Cardinality(S) |-> curr[Nth(k)]]]

\* extractor.py:126-144
diff_blocks(prev, curr) ==
  [added    |-> DiffCurr(PathsOf(curr, {}), prev, curr, "added"),
   removed  |-> DiffPrev(PathsOf(prev, {}), prev, curr),
   modified |-> DiffCurr(PathsOf(curr, {}), prev, curr, "modified")]

score(b) ==
  LET base == b.weight
      b1 == IF b.type = "price" THEN base + 5 ELSE base
      b2 == IF b.type = "headline" THEN b1 + 3 ELSE b1
      b3 == IF b.type = "list_item" THEN b2 + 2 ELSE b2
  IN  IF TextLen(b.text) < 12 THEN b3 - 2 ELSE b3

\* insert b before the items of equal score: descending, ties reversed
RECURSIVE InsertDesc_BeforeTies(_, _)
InsertDesc_BeforeTies(sorted, b) ==
  IF Len(sorted) = 0 THEN <<b>>
  ELSE IF score(Head(sorted)) > score(b)
       THEN <<Head(sorted)>> \o InsertDesc_BeforeTies(Tail(sorted), b)
       ELSE <<b>> \o sorted

\* insert b after every item whose score is >= its own: a stable descending sort
RECURSIVE InsertDesc(_, _)
InsertDesc(sorted, b) ==
  IF Len(sorted) = 0 THEN <<b>>
  ELSE IF score(Head(sorted)) >= score(b)
       THEN <<Head(sorted)>> \o InsertDesc(Tail(sorted), b)
       ELSE <<b>> \o sorted

RECURSIVE SortDesc(_)
SortDesc(items) ==
  IF Len(items) = 0 THEN << >>
  ELSE InsertDesc(SortDesc(SubSeq(items, 1, Len(items) - 1)), items[Len(items)])

\* items[:n]; a negative n counts from the end
\* a slice that truncates nothing
Take_All(items, n) == items

Take(items, n) ==
  IF n >= 0 THEN SubSeq(items, 1, IF Len(items) < n THEN Len(items) ELSE n)
  ELSE SubSeq(items, 1, IF Len(items) + n > 0 THEN Len(items) + n ELSE 0)

KEEP_MAX == 60

filter_relevant(changes, keep_max) ==
  [added    |-> Take(SortDesc(changes.added), keep_max),
   removed  |-> Take(SortDesc(changes.removed), keep_max),
   modified |-> Take(SortDesc(changes.modified), keep_max)]

NoChanges == [added |-> << >>, removed |-> << >>, modified |-> << >>]

\* any(filtered.values())
AnyValues(filtered) ==
  Len(filtered.added) > 0 \/ Len(filtered.removed) > 0 \/ Len(filtered.modified) > 0

\* ------------------------------------------------------------------ rule classifier
\* tokens the four patterns of monitor_core.py match
PriceToks == {"$10", "$20"}
DateToks  == {"Jan"}
StockToks == {"in stock"}
CtaToks   == {"buy now"}

PRICE_RE == [toks |-> PriceToks]
DATE_RE  == [toks |-> DateToks]
STOCK_RE == [toks |-> StockToks]
CTA_RE   == [toks |-> CtaToks]

\* Python's None as the result of a search without match
NoMatch == [oid |-> 0, group |-> "None"]

\* re.search: None, or a new Match object. A Match object has no __eq__, so
\* two of them compare by identity: oid is the identity of the object, one
\* per call of search.
Search(re, text, oid) ==
  LET hits == {i \in 1..Len(text) : text[i] \in re.toks}
  IN  IF hits = {} THEN NoMatch
      ELSE LET i == CHOOSE j \in hits : \A k \in hits : j <= k
           IN  [oid |-> oid, group |-> text[i]]

\* the captured group (\$|EUR|GBP) of a price token
CurrencyOf(tok) == "$"

\* PRICE_RE.findall: with one group in the pattern, the list of that group
RECURSIVE FindallPrice(_)
FindallPrice(text) ==
  IF Len(text) = 0 THEN << >>
  ELSE IF Head(text) \in PriceToks
       THEN <<CurrencyOf(Head(text))>> \o FindallPrice(Tail(text))
       ELSE FindallPrice(Tail(text))

classify_material_change(old, new) ==
  LET changed_price == \/ Search(PRICE_RE, old, 1) # Search(PRICE_RE, new, 2)
                       \/ FindallPrice(old) # FindallPrice(new)
      changed_date  == Search(DATE_RE, old, 3) # Search(DATE_RE, new, 4)
      changed_stock == Search(STOCK_RE, old, 5) # Search(STOCK_RE, new, 6)
      changed_cta   == Search(CTA_RE, old, 7) # Search(CTA_RE, new, 8)
  IN  IF changed_stock \/ changed_price THEN <<TRUE, "high">>
      ELSE IF changed_date THEN <<TRUE, "medium">>
      ELSE IF changed_cta THEN <<TRUE, "low">>
      ELSE <<FALSE, "none">>

ClsTokens == {"Sale", "$10", "$20", "Jan", "in stock", "buy now"}
ClsTexts == UNION {[1..n -> ClsTokens] : n \in 0..MaxClsLen}

\* ------------------------------------------------------------------ state
VARIABLES
  monitors,       \* table monitor: id -> row (exists = FALSE: no such row)
  results,        \* table checkresult, in insertion order
  jobs,           \* the scheduler's job store: the jobs "monitor-<id>", in order of addition
  instances,      \* id -> running instances of that job (the executor's count)
  missed,         \* id -> fires skipped since the job's last submitted run
  runs,           \* run_check invocations: position and locals
  togglePending,  \* id -> toggle_monitor between its commit and its scheduler call
  deletePending,  \* id -> delete_monitor between remove_job and its transaction
  LLM_ENABLED,    \* main.py: an API key is configured
  clsOld, clsNew, clsOut,  \* classify_material_change applied to a pair of texts
  fnArgs, fnOut            \* diff_blocks or filter_relevant applied to its arguments

vars == <<monitors, results, jobs, instances, missed, runs, togglePending,
          deletePending, LLM_ENABLED, clsOld, clsNew, clsOut, fnArgs, fnOut>>

checkVars == <<monitors, results, jobs, instances, missed, runs, togglePending,
               deletePending, LLM_ENABLED>>
clsVars == <<clsOld, clsNew, clsOut>>
fnVars == <<fnArgs, fnOut>>

\* db.py Monitor: the column defaults
NoMon ==
  [exists |-> FALSE, is_active |-> FALSE, ignore_robots |-> FALSE, render_js |-> FALSE,
   last_text |-> EmptyStr, last_content_hash |-> EmptyStr, last_image_hash |-> EmptyStr,
   last_blocks_json |-> JsonDumps(<< >>), last_checked_at |-> None]

\* a new row whose content hash is NULL
Monitor_NullHash(ignore_robots, render_js) ==
  [NoMon EXCEPT !.exists = TRUE, !.is_active = TRUE,
                !.ignore_robots = ignore_robots, !.render_js = render_js,
                !.last_content_hash = None]

Monitor(ignore_robots, render_js) ==
  [NoMon EXCEPT !.exists = TRUE, !.is_active = TRUE,
                !.ignore_robots = ignore_robots, !.render_js = render_js]

\* the baseline columns of a monitor row
Baseline(m) ==
  <<m.last_text, m.last_content_hash, m.last_image_hash, m.last_blocks_json, m.last_checked_at>>

\* db.py CheckResult: the column defaults; run is the invocation that wrote the row
CheckResult(monitor_id, run) ==
  [monitor_id |-> monitor_id, run |-> run, status_code |-> 0,
   text_change_ratio |-> Zero,
   changed_text |-> FALSE, changed_visual |-> FALSE,
   material_change |-> FALSE, severity |-> "none", semantic_summary |-> EmptyStr,
   changes_json |-> JsonDumps(<< >>), note |-> ""]

BlockedRow(monitor_id, run) ==
  [CheckResult(monitor_id, run) EXCEPT !.note = "Blocked by robots.txt"]

\* a handler that records the failure without its note
ErrorRow_NoNote(monitor_id, run) == CheckResult(monitor_id, run)

ErrorRow(monitor_id, run) ==
  [CheckResult(monitor_id, run) EXCEPT !.note = "Error"]

NoRow == CheckResult(0, 0)
NoBase == [text |-> EmptyStr, hash |-> EmptyStr, img |-> None, blocks_json |-> JsonDumps(<< >>)]

IdleRun ==
  [pc |-> "idle", target |-> 0, trigger |-> "none", mon |-> NoMon,
   row |-> NoRow, base |-> NoBase,
   sessBroken |-> FALSE, expired |-> FALSE,
   \* history of the invocation
   passed |-> FALSE, robots |-> "unasked", failure |-> "none",
   fetched |-> FALSE, seen |-> << >>, llmCalled |-> FALSE, llmFailed |-> FALSE,
   okRows |-> 0, errRows |-> 0,
   blockedRows |-> 0, baseWrites |-> 0, notified |-> "no", cancel |-> "none"]

InFlight == {"blocked", "fetch", "commit", "notify", "handler"}
Ended == {"done", "escaped"}

\* ------------------------------------------------------------------ the pages the fetcher returns
H_Sale == block(<<"Sale">>, "headline", "main > h1:nth-of-type(1)", 10)
B_P10  == block(<<"$10">>, "price", "text-scan", 9)
B_P20  == block(<<"$20">>, "price", "text-scan", 9)

PageSale10 == [text |-> <<"Sale">>, html |-> <<H_Sale, B_P10, B_P10>>]
PageSale20 == [text |-> <<"Sale">>, html |-> <<H_Sale, B_P20>>]
PageNews   == [text |-> <<"News", "\n", " ", "Sale">>, html |-> << >>]
PageStock  == [text |-> <<"in stock">>, html |-> << >>]
PageEmpty  == [text |-> << >>, html |-> << >>]

Pages == {PageSale10, PageSale20, PageNews, PageStock, PageEmpty}
\* the pages served where the interleaving of requests and timers is explored
FewPages == {PageSale10, PageNews}

NoShot == << >>
Shots == { <<10, 200>>, <<12, 200>> }

ShotsFor(render_js) == IF render_js THEN Shots ELSE {NoShot}

\* the texts a baseline or a fetch can hold, and the ratio of each pair of
\* them, computed once
PageTexts == {normalize_text_block(p.text) : p \in Pages} \cup {EmptyStr}
RatioOf == [old \in PageTexts, new \in PageTexts |-> SequenceRatio(old, new)]

\* monitor_core.py:46-48: one minus the similarity (the rounding to four
\* decimals leaves the fractions of these texts distinct)
text_change_ratio(prev, curr) ==
  LET r == SequenceRatio(prev, curr) IN Frac(r[2] - r[1], r[2])

\* ------------------------------------------------------------------ the semantic provider
Neutral == [raised |-> FALSE, material_change |-> FALSE, severity |-> "none", summary_short |-> EmptyStr]

Verdicts ==
  { [raised |-> FALSE, material_change |-> TRUE,  severity |-> "low",    summary_short |-> <<"s">>],
    [raised |-> FALSE, material_change |-> FALSE, severity |-> "medium", summary_short |-> <<"s">>],
    [raised |-> FALSE, material_change |-> FALSE, severity |-> "low",    summary_short |-> <<"s">>] }

\* what chain.invoke does: a verdict, or an exception
LlmOutcomes == Verdicts \cup {[Neutral EXCEPT !.raised = TRUE]}

\* an except clause that answers a material verdict in place of the no-op
llm_decide_from_blocks_Material(enabled, outcome) ==
  IF ~enabled THEN Neutral
  ELSE IF outcome.raised THEN [Neutral EXCEPT !.material_change = TRUE, !.severity = "high"]
  ELSE outcome

\* main.py:59-88
llm_decide_from_blocks(enabled, outcome) ==
  IF ~enabled THEN Neutral
  ELSE IF outcome.raised THEN Neutral
  ELSE outcome

\* ------------------------------------------------------------------ run_check, the computation
\* the gate with the answer of the robots lookup inverted
RobotsBlocks_Inverted(mon, allowed) == (~mon.ignore_robots) /\ allowed

\* main.py:96
RobotsBlocks(mon, allowed) == (~mon.ignore_robots) /\ (~allowed)

\* any(filtered) in place of any(filtered.values()): a dict with keys is truthy
likely_changed_AnyKeys(text_changed, visual_changed, filtered) ==
  text_changed \/ visual_changed \/ (DOMAIN filtered # {})

\* main.py:128
likely_changed(text_changed, visual_changed, filtered) ==
  text_changed \/ visual_changed \/ AnyValues(filtered)

\* the notification test without its severity clause
NotifyCond_NoSeverity(material_change, severity, text_changed, visual_changed) ==
  material_change \/ text_changed \/ visual_changed

\* main.py:166
NotifyCond(material_change, severity, text_changed, visual_changed) ==
  material_change \/ severity \in {"medium", "high"} \/ text_changed \/ visual_changed

\* main.py:101-157: from the fetched page to the CheckResult and the new baseline
Check(mon, monitor_id, run, page, screenshot, enabled, outcome) ==
  LET text_for_diff == normalize_text_block(page.text)
      new_text_hash == text_hash(text_for_diff)
      text_changed  == (mon.last_content_hash # None) /\ (new_text_hash # mon.last_content_hash)
      old_text      == mon.last_text
      new_img_hash  == IF screenshot # NoShot THEN image_hash(screenshot) ELSE None
      visual_changed == /\ screenshot # NoShot
                        /\ mon.last_image_hash # None
                        /\ new_img_hash # mon.last_image_hash
      change_ratio == IF text_changed THEN RatioOf[old_text, text_for_diff] ELSE Zero
      new_blocks  == IF Len(page.html) > 0 THEN extract_blocks_from_html(page.html) ELSE << >>
      prev_blocks == JsonLoads(mon.last_blocks_json)
      filtered == IF Len(new_blocks) > 0
                  THEN filter_relevant(diff_blocks(prev_blocks, new_blocks), KEEP_MAX)
                  ELSE filter_relevant(NoChanges, KEEP_MAX)
      called  == likely_changed(text_changed, visual_changed, filtered)
      llm_out == IF called THEN llm_decide_from_blocks(enabled, outcome) ELSE Neutral
  IN  [row |-> [CheckResult(monitor_id, run) EXCEPT
                  !.status_code = 200,
                  !.text_change_ratio = change_ratio,
                  !.changed_text = text_changed,
                  !.changed_visual = visual_changed,
                  !.material_change = llm_out.material_change,
                  !.severity = llm_out.severity,
                  !.semantic_summary = llm_out.summary_short,
                  !.changes_json = JsonDumps(filtered)],
       base |-> [text |-> text_for_diff, hash |-> new_text_hash, img |-> new_img_hash,
                 blocks_json |-> JsonDumps(new_blocks)],
       llmCalled |-> called,
       llmFailed |-> called /\ enabled /\ outcome.raised]

\* the UPDATE the flush emits sets a column only if the value assigned to the
\* attribute differs from the value the session loaded; the other columns
\* keep what the store holds
Col(stored, loaded, assigned) == IF assigned # loaded THEN assigned ELSE stored

\* a baseline write that leaves the content hash as it was
NewBaseline_NoHash(row, loaded, base, run) ==
  [row EXCEPT !.last_text = Col(@, loaded.last_text, base.text),
              !.last_image_hash = IF base.img # None
                                  THEN Col(@, loaded.last_image_hash, base.img) ELSE @,
              !.last_blocks_json = Col(@, loaded.last_blocks_json, base.blocks_json),
              !.last_checked_at = <<"at", run>>]

\* main.py:159-164: the baseline columns a successful run assigns on the row
\* it loaded at main.py:93, and the row the commit leaves in the store
NewBaseline(row, loaded, base, run) ==
  [row EXCEPT !.last_content_hash = Col(@, loaded.last_content_hash, base.hash),
              !.last_text = Col(@, loaded.last_text, base.text),
              !.last_image_hash = IF base.img # None
                                  THEN Col(@, loaded.last_image_hash, base.img) ELSE @,
              !.last_blocks_json = Col(@, loaded.last_blocks_json, base.blocks_json),
              !.last_checked_at = <<"at", run>>]

\* ------------------------------------------------------------------ helpers of the actions
FreeRuns == {r \in Runs : runs[r].pc = "idle"}
NextRun == CHOOSE r \in FreeRuns : \A q \in FreeRuns : r <= q

\* the invocation returns (pc "done") or an exception leaves it (pc "escaped");
\* a scheduled invocation gives its job instance back to the executor
Finish(r, rec, pc) ==
  /\ runs' = [runs EXCEPT ![r] = [rec EXCEPT !.pc = pc, !.mon = NoMon, !.base = NoBase,
                                             !.sessBroken = FALSE, !.expired = FALSE]]
  /\ instances' = IF rec.trigger = "timer"
                  THEN [instances EXCEPT ![rec.target] = @ - 1]
                  ELSE instances

\* INSERT of a checkresult row whose monitor row is gone: PRAGMA foreign_keys
\* is set on one connection only (db.py:11-14), so the insert is either
\* refused or leaves an orphan row, depending on the connection used
FkOutcomes(monitor_id) == IF monitors[monitor_id].exists THEN {"ok"} ELSE {"ok", "refused"}

\* ------------------------------------------------------------------ the job store
\* the job monitor-<id>; replaced: add_job has put a new job in its place
Job(id) == [id |-> id, replaced |-> FALSE]

HasJob(js, id) == \E i \in 1..Len(js) : js[i].id = id

\* add_job without replace_existing on a store that does not refuse the id
schedule_monitor_Append(js, id) == Append(js, Job(id))

\* scheduler.py:9-19: add_job(id="monitor-<id>", replace_existing=True)
schedule_monitor(js, id) ==
  IF HasJob(js, id)
  THEN [i \in 1..Len(js) |-> IF js[i].id = id THEN [js[i] EXCEPT !.replaced = TRUE] ELSE js[i]]
  ELSE Append(js, Job(id))

\* scheduler.remove_job("monitor-<id>")
remove_job(js, id) == SelectSeq(js, LAMBDA j : j.id # id)

\* scheduler.py:21-26: schedule_monitor for every active monitor, in id order
RECURSIVE load_schedules(_, _)
load_schedules(js, mons) ==
  IF mons = {} THEN js
  ELSE LET m == CHOOSE i \in mons : \A j \in mons : i <= j
       IN  load_schedules(schedule_monitor(js, m), mons \ {m})

\* ------------------------------------------------------------------ triggers
\* POST /monitors (main.py:203-206): the row is committed; the request goes on
\* to schedule_monitor and run_check. SQLite gives the new row max(id) + 1.
CreateMonitor(renderModes) ==
  /\ FreeRuns # {}
  /\ LET used == {i \in Ids : monitors[i].exists}
         id == IF used = {} THEN 1 ELSE (CHOOSE i \in used : \A j \in used : j <= i) + 1
     IN  /\ id \in Ids
         /\ \E ignore_robots \in BOOLEAN, render_js \in renderModes :
              monitors' = [monitors EXCEPT ![id] = Monitor(ignore_robots, render_js)]
         /\ runs' = [runs EXCEPT ![NextRun] =
                       [IdleRun EXCEPT !.pc = "schedule", !.target = id, !.trigger = "create"]]
  /\ UNCHANGED <<results, jobs, instances, missed, togglePending, deletePending,
                 LLM_ENABLED, clsVars, fnVars>>

\* scheduler.py:9-19 as called from create_monitor (main.py:207): add_job with
\* replace_existing; run_check follows in the same request
ScheduleCreated(r) ==
  /\ runs[r].pc = "schedule"
  /\ jobs' = schedule_monitor(jobs, runs[r].target)
  /\ runs' = [runs EXCEPT ![r].pc = "start"]
  /\ UNCHANGED <<monitors, results, instances, missed, togglePending, deletePending,
                 LLM_ENABLED, clsVars, fnVars>>

\* POST /monitors/{id}/run (main.py:220-221): run_check in the request's thread
RunNow(id) ==
  /\ FreeRuns # {}
  /\ runs' = [runs EXCEPT ![NextRun] =
                [IdleRun EXCEPT !.pc = "start", !.target = id, !.trigger = "api"]]
  /\ UNCHANGED <<monitors, results, jobs, instances, missed, togglePending, deletePending,
                 LLM_ENABLED, clsVars, fnVars>>

\* the interval trigger of job monitor-<id> fires (scheduler.py:11-19). With
\* max_instances=1 the executor refuses the submission while an instance of
\* the job is running and the scheduler skips that run time.
TimerFire(id) ==
  /\ HasJob(jobs, id)
  /\ IF instances[id] >= 1
     THEN /\ missed[id] < MaxMissed
          /\ missed' = [missed EXCEPT ![id] = @ + 1]
          /\ UNCHANGED <<runs, instances>>
     ELSE /\ FreeRuns # {}
          /\ instances' = [instances EXCEPT ![id] = @ + 1]
          /\ missed' = [missed EXCEPT ![id] = 0]
          /\ runs' = [runs EXCEPT ![NextRun] =
                        [IdleRun EXCEPT !.pc = "start", !.target = id, !.trigger = "timer"]]
  /\ UNCHANGED <<monitors, results, jobs, togglePending, deletePending, LLM_ENABLED, clsVars, fnVars>>

\* ------------------------------------------------------------------ run_check, step by step
\* a guard that lets an inactive target through
NotRunnable_MissingOnly(mon) == ~mon.exists

\* main.py:94: `if not mon or not mon.is_active: return`
NotRunnable(mon) == (~mon.exists) \/ (~mon.is_active)

\* main.py:92-96: load the row, return if it is missing or inactive, then the
\* robots lookup (its answer is the environment's)
Start(r) ==
  /\ runs[r].pc = "start"
  /\ LET mon == monitors[runs[r].target]
     IN  IF NotRunnable(mon)
         THEN Finish(r, runs[r], "done")
         ELSE /\ \E allowed \in BOOLEAN :
                   runs' = [runs EXCEPT ![r] =
                              [@ EXCEPT !.pc = IF RobotsBlocks(mon, allowed) THEN "blocked" ELSE "fetch",
                                        !.mon = mon, !.passed = TRUE,
                                        !.robots = IF mon.ignore_robots THEN "unasked"
                                                   ELSE IF allowed THEN "allowed"
                                                   ELSE "disallowed"]]
              /\ UNCHANGED instances
  /\ UNCHANGED <<monitors, results, jobs, missed, togglePending, deletePending,
                 LLM_ENABLED, clsVars, fnVars>>

\* main.py:97-98: the blocked row and its commit (outside the try)
BlockedCommit(r) ==
  /\ runs[r].pc = "blocked"
  /\ \E fk \in FkOutcomes(runs[r].target) :
       IF fk = "ok"
       THEN /\ results' = Append(results, BlockedRow(runs[r].target, r))
            /\ Finish(r, [runs[r] EXCEPT !.blockedRows = @ + 1], "done")
       ELSE /\ results' = results
            /\ Finish(r, runs[r], "escaped")
  /\ UNCHANGED <<monitors, jobs, missed, togglePending, deletePending, LLM_ENABLED, clsVars, fnVars>>

\* main.py:101-138: the fetch raises (as may anything up to the classification),
\* or it returns a page and the run computes its result
Fetch(r, pages, outcomes) ==
  /\ runs[r].pc = "fetch"
  /\ \/ runs' = [runs EXCEPT ![r] = [@ EXCEPT !.pc = "handler", !.fetched = TRUE,
                                              !.failure = "fetch"]]
     \/ \E page \in pages, screenshot \in ShotsFor(runs[r].mon.render_js),
           outcome \in outcomes :
          LET c == Check(runs[r].mon, runs[r].target, r, page, screenshot, LLM_ENABLED, outcome)
          IN  runs' = [runs EXCEPT ![r] = [@ EXCEPT !.pc = "commit", !.fetched = TRUE,
                                                    !.seen = <<page, screenshot>>,
                                                    !.row = c.row, !.base = c.base,
                                                    !.llmCalled = c.llmCalled,
                                                    !.llmFailed = c.llmFailed]]
  /\ UNCHANGED <<monitors, results, jobs, instances, missed, togglePending, deletePending,
                 LLM_ENABLED, clsVars, fnVars>>

\* main.py:140-164: one transaction with the CheckResult insert and the UPDATE
\* of the monitor row. The UPDATE of a row that has been deleted matches no
\* row: the flush raises, the transaction is rolled back and the session
\* refuses further work until rollback() is called.
Commit(r) ==
  /\ runs[r].pc = "commit"
  /\ LET id == runs[r].target
     IN  IF monitors[id].exists
         THEN /\ results' = Append(results, runs[r].row)
              /\ monitors' = [monitors EXCEPT ![id] = NewBaseline(@, runs[r].mon, runs[r].base, r)]
              /\ runs' = [runs EXCEPT ![r] = [@ EXCEPT !.pc = "notify", !.expired = TRUE,
                                                       !.okRows = @ + 1, !.baseWrites = @ + 1]]
         ELSE /\ runs' = [runs EXCEPT ![r] = [@ EXCEPT !.pc = "handler", !.sessBroken = TRUE,
                                                       !.failure = "commit"]]
              /\ UNCHANGED <<monitors, results>>
  /\ UNCHANGED <<jobs, instances, missed, togglePending, deletePending, LLM_ENABLED, clsVars, fnVars>>

\* main.py:166-172: mon.url reloads the row the commit expired (an error if
\* the row is gone); send_email raises or returns; send_slack never raises
Notify(r) ==
  /\ runs[r].pc = "notify"
  /\ LET row == runs[r].row
     IN  IF ~NotifyCond(row.material_change, row.severity, row.changed_text, row.changed_visual)
         THEN Finish(r, runs[r], "done")
         ELSE IF ~monitors[runs[r].target].exists
         THEN /\ runs' = [runs EXCEPT ![r] = [@ EXCEPT !.pc = "handler", !.failure = "notify"]]
              /\ UNCHANGED instances
         ELSE \/ Finish(r, [runs[r] EXCEPT !.notified = "sent"], "done")
              \/ /\ runs' = [runs EXCEPT ![r] = [@ EXCEPT !.pc = "handler", !.expired = FALSE,
                                                          !.notified = "raised",
                                                          !.failure = "notify"]]
                 /\ UNCHANGED instances
  /\ UNCHANGED <<monitors, results, jobs, missed, togglePending, deletePending,
                 LLM_ENABLED, clsVars, fnVars>>

\* main.py:174-176: the error row, its commit and the print. mon.id and the
\* commit raise in their turn when the session awaits a rollback or the expired
\* row is gone; the print reads mon after the commit expired it, and raises
\* when the row has been deleted.
Handler(r) ==
  /\ runs[r].pc = "handler"
  /\ LET id == runs[r].target
     IN  IF runs[r].sessBroken \/ (runs[r].expired /\ ~monitors[id].exists)
         THEN /\ results' = results
              /\ Finish(r, runs[r], "escaped")
         ELSE \E fk \in FkOutcomes(id) :
                IF fk = "ok"
                THEN /\ results' = Append(results, ErrorRow(id, r))
                     /\ Finish(r, [runs[r] EXCEPT !.errRows = @ + 1],
                               IF monitors[id].exists THEN "done" ELSE "escaped")
                ELSE /\ results' = results
                     /\ Finish(r, runs[r], "escaped")
  /\ UNCHANGED <<monitors, jobs, missed, togglePending, deletePending, LLM_ENABLED, clsVars, fnVars>>

\* ------------------------------------------------------------------ toggle and delete
\* a run that holds the row when the target is deactivated or deleted
MarkCancelled(id, how) ==
  [r \in Runs |-> IF runs[r].target = id /\ runs[r].pc \in InFlight
                     /\ (how = "delete" \/ runs[r].cancel = "none")
                  THEN [runs[r] EXCEPT !.cancel = how]
                  ELSE runs[r]]

\* main.py:225-228: flip is_active and commit (404 when the row is missing)
ToggleCommit(id) ==
  /\ togglePending[id] = "none"
  /\ monitors[id].exists
  /\ LET active == ~monitors[id].is_active
     IN  /\ monitors' = [monitors EXCEPT ![id].is_active = active]
         /\ togglePending' = [togglePending EXCEPT ![id] = IF active THEN "on" ELSE "off"]
         /\ runs' = IF active THEN runs ELSE MarkCancelled(id, "toggle")
  /\ UNCHANGED <<results, jobs, instances, missed, deletePending, LLM_ENABLED, clsVars, fnVars>>

\* main.py:229-234: mon is read after its session committed and closed. The
\* commit expired the object, so the read either raises (swallowed by the
\* except: no scheduler call) or yields the value just set; both are modelled.
ToggleSchedule(id) ==
  /\ togglePending[id] # "none"
  /\ \E detached \in BOOLEAN :
       jobs' = IF detached THEN jobs
               ELSE IF togglePending[id] = "on" THEN schedule_monitor(jobs, id)
               ELSE remove_job(jobs, id)
  /\ togglePending' = [togglePending EXCEPT ![id] = "none"]
  /\ UNCHANGED <<monitors, results, instances, missed, runs, deletePending,
                 LLM_ENABLED, clsVars, fnVars>>

\* main.py:253-257: remove_job; a missing job raises and is swallowed
DeleteRemoveJob(id) ==
  /\ ~deletePending[id]
  /\ jobs' = remove_job(jobs, id)
  /\ deletePending' = [deletePending EXCEPT ![id] = TRUE]
  /\ UNCHANGED <<monitors, results, instances, missed, runs, togglePending,
                 LLM_ENABLED, clsVars, fnVars>>

\* main.py:260-267: 404 when the row is missing, else the results of the
\* target and its row are deleted in one transaction
DeleteCommit(id) ==
  /\ deletePending[id]
  /\ deletePending' = [deletePending EXCEPT ![id] = FALSE]
  /\ IF monitors[id].exists
     THEN /\ results' = SelectSeq(results, LAMBDA row : row.monitor_id # id)
          /\ monitors' = [monitors EXCEPT ![id] = NoMon]
          /\ runs' = MarkCancelled(id, "delete")
     ELSE UNCHANGED <<results, monitors, runs>>
  /\ UNCHANGED <<jobs, instances, missed, togglePending, LLM_ENABLED, clsVars, fnVars>>

\* ------------------------------------------------------------------ restart
\* no request and no run_check is executing
Quiescent ==
  /\ \A r \in Runs : runs[r].pc \in {"idle"} \cup Ended
  /\ \A id \in Ids : togglePending[id] = "none" /\ ~deletePending[id]

\* main.py:179-184 in a new process (restarted while nothing is executing): the
\* job store is in memory and starts empty; load_schedules fills it
on_startup ==
  /\ Quiescent
  /\ jobs' = load_schedules(<< >>, {id \in Ids : monitors[id].exists /\ monitors[id].is_active})
  /\ instances' = [id \in Ids |-> 0]
  /\ missed' = [id \in Ids |-> 0]
  /\ UNCHANGED <<monitors, results, runs, togglePending, deletePending,
                 LLM_ENABLED, clsVars, fnVars>>

\* ------------------------------------------------------------------ the program
ClsIdle == <<"not applied">>
FnIdle == [applied |-> FALSE]

Init ==
  /\ monitors = [i \in Ids |-> NoMon]
  /\ results = << >>
  /\ jobs = << >>
  /\ instances = [i \in Ids |-> 0]
  /\ missed = [i \in Ids |-> 0]
  /\ runs = [r \in Runs |-> IdleRun]
  /\ togglePending = [i \in Ids |-> "none"]
  /\ deletePending = [i \in Ids |-> FALSE]
  /\ LLM_ENABLED = FALSE
  /\ clsOld = << >>
  /\ clsNew = << >>
  /\ clsOut = ClsIdle
  /\ fnArgs = << >>
  /\ fnOut = FnIdle

Next ==
  \/ CreateMonitor({FALSE})
  \/ \E r \in Runs : ScheduleCreated(r)
  \/ \E id \in Ids : RunNow(id)
  \/ \E id \in Ids : TimerFire(id)
  \/ \E r \in Runs : Start(r)
  \/ \E r \in Runs : BlockedCommit(r)
  \/ \E r \in Runs : Fetch(r, FewPages, {Neutral})
  \/ \E r \in Runs : Commit(r)
  \/ \E r \in Runs : Notify(r)
  \/ \E r \in Runs : Handler(r)
  \/ \E id \in Ids : ToggleCommit(id)
  \/ \E id \in Ids : ToggleSchedule(id)
  \/ \E id \in Ids : DeleteRemoveJob(id)
  \/ \E id \in Ids : DeleteCommit(id)
  \/ on_startup

Spec == Init /\ [][Next]_vars

\* ------------------------------------------------------------------ the check pipeline on every page
\* no toggle and no delete; both render modes, every page and screenshot, the
\* provider configured or not and every outcome of its call
InitCheck ==
  /\ monitors = [i \in Ids |-> NoMon]
  /\ results = << >>
  /\ jobs = << >>
  /\ instances = [i \in Ids |-> 0]
  /\ missed = [i \in Ids |-> 0]
  /\ runs = [r \in Runs |-> IdleRun]
  /\ togglePending = [i \in Ids |-> "none"]
  /\ deletePending = [i \in Ids |-> FALSE]
  /\ LLM_ENABLED \in BOOLEAN
  /\ clsOld = << >>
  /\ clsNew = << >>
  /\ clsOut = ClsIdle
  /\ fnArgs = << >>
  /\ fnOut = FnIdle

NextCheck ==
  \/ CreateMonitor(BOOLEAN)
  \/ \E r \in Runs : ScheduleCreated(r)
  \/ \E id \in Ids : RunNow(id)
  \/ \E id \in Ids : TimerFire(id)
  \/ \E r \in Runs : Start(r)
  \/ \E r \in Runs : BlockedCommit(r)
  \/ \E r \in Runs : Fetch(r, Pages, LlmOutcomes)
  \/ \E r \in Runs : Commit(r)
  \/ \E r \in Runs : Notify(r)
  \/ \E r \in Runs : Handler(r)

SpecCheck == InitCheck /\ [][NextCheck]_vars

\* ------------------------------------------------------------------ the rule classifier on its own
InitClassify ==
  /\ monitors = [i \in Ids |-> NoMon]
  /\ results = << >>
  /\ jobs = << >>
  /\ instances = [i \in Ids |-> 0]
  /\ missed = [i \in Ids |-> 0]
  /\ runs = [r \in Runs |-> IdleRun]
  /\ togglePending = [i \in Ids |-> "none"]
  /\ deletePending = [i \in Ids |-> FALSE]
  /\ LLM_ENABLED = FALSE
  /\ clsOld \in ClsTexts
  /\ clsNew \in ClsTexts
  /\ clsOut = ClsIdle
  /\ fnArgs = << >>
  /\ fnOut = FnIdle

Classify ==
  /\ clsOut = ClsIdle
  /\ clsOut' = classify_material_change(clsOld, clsNew)
  /\ UNCHANGED <<clsOld, clsNew, checkVars, fnVars>>

NextClassify == Classify

SpecClassify == InitClassify /\ [][NextClassify]_vars

\* ------------------------------------------------------------------ diff_blocks on its own
\* the store and the classifier at rest
InitIdle ==
  /\ monitors = [i \in Ids |-> NoMon]
  /\ results = << >>
  /\ jobs = << >>
  /\ instances = [i \in Ids |-> 0]
  /\ missed = [i \in Ids |-> 0]
  /\ runs = [r \in Runs |-> IdleRun]
  /\ togglePending = [i \in Ids |-> "none"]
  /\ deletePending = [i \in Ids |-> FALSE]
  /\ LLM_ENABLED = FALSE
  /\ clsOld = << >>
  /\ clsNew = << >>
  /\ clsOut = ClsIdle

\* sequences of at most n items of S
SeqsUpTo(S, n) == UNION {[1..k -> S] : k \in 0..n}

DiffPaths == {"main > ul > li:nth-of-type(1)", "main > ul > li:nth-of-type(2)"}
DiffBlocks == {block(<<t>>, "list_item", path, 5) : t \in {"Sale", "News"}, path \in DiffPaths}

InitDiff ==
  /\ InitIdle
  /\ fnArgs \in [prev : SeqsUpTo(DiffBlocks, MaxDiffLen), curr : SeqsUpTo(DiffBlocks, MaxDiffLen)]
  /\ fnOut = FnIdle

Diff ==
  /\ fnOut = FnIdle
  /\ fnOut' = diff_blocks(fnArgs.prev, fnArgs.curr)
  /\ UNCHANGED <<fnArgs, checkVars, clsVars>>

NextDiff == Diff

SpecDiff == InitDiff /\ [][NextDiff]_vars

\* ------------------------------------------------------------------ filter_relevant on its own
F_Price == block(<<"$10">>, "price", "text-scan", 4)
F_Head  == block(<<"Sale">>, "headline", "main > h3:nth-of-type(1)", 4)
F_Item  == block(<<"News">>, "list_item", "main > ul > li:nth-of-type(1)", 5)
F_Para  == block(<<"Summer collection">>, "paragraph", "main > p:nth-of-type(1)", 4)
FilterBlocks == {F_Price, F_Head, F_Item, F_Para}

InitFilter ==
  /\ InitIdle
  /\ fnArgs \in [changes : [added    : SeqsUpTo(FilterBlocks, MaxFilterLen),
                            removed  : SeqsUpTo({F_Head, F_Item}, MaxOtherLen),
                            modified : SeqsUpTo({F_Head, F_Item}, MaxOtherLen)],
                 keep_max : 0..MaxKeep]
  /\ fnOut = FnIdle

Filter ==
  /\ fnOut = FnIdle
  /\ fnOut' = filter_relevant(fnArgs.changes, fnArgs.keep_max)
  /\ UNCHANGED <<fnArgs, checkVars, clsVars>>

NextFilter == Filter

SpecFilter == InitFilter /\ [][NextFilter]_vars

\* ------------------------------------------------------------------ properties
RowsOf(r) == runs[r].okRows + runs[r].errRows + runs[r].blockedRows

\* C1: runs of one target are strictly serialized whatever starts them (timer
\* fire, POST /monitors, POST /monitors/{id}/run): no two run_check executions
\* of the same target hold its row at once.
C1_RunsSerialized ==
  \A r1, r2 \in Runs :
    (r1 # r2 /\ runs[r1].pc \in InFlight /\ runs[r2].pc \in InFlight)
      => runs[r1].target # runs[r2].target

\* C2: the baseline is written only together with the success CheckResult of
\* the same run, in one transaction (the stored last_checked_at is that of a
\* success row of the target in the store), and a run that records an error
\* note has not written the baseline, whichever step raised.
C2_BaselineOnlyWithSuccess ==
  /\ \A r \in Runs : runs[r].baseWrites = runs[r].okRows
  /\ \A id \in Ids :
       (monitors[id].exists /\ monitors[id].last_checked_at # None)
         => \E i \in 1..Len(results) :
              /\ results[i].monitor_id = id
              /\ results[i].note = ""
              /\ <<"at", results[i].run>> = monitors[id].last_checked_at
  /\ \A r \in Runs : runs[r].errRows > 0 => runs[r].baseWrites = 0

\* C3: every run_check invocation that ends, on a target that existed and was
\* active at its start and has not been deleted under it, has written exactly
\* one CheckResult, on every path: never zero and never two.
C3_ExactlyOneResult ==
  \A r \in Runs :
    (runs[r].passed /\ runs[r].pc \in Ended /\ runs[r].cancel # "delete") => RowsOf(r) = 1

LastRow(rows) == rows[Len(rows)]
Appended(before, after) == Len(after) = Len(before) + 1 /\ SubSeq(after, 1, Len(before)) = before

\* C4: a run whose robots lookup answered "disallowed" (ignore_robots false)
\* fetches nothing, notifies nobody, writes no baseline and no other row, and
\* ends having persisted exactly one CheckResult with the blocked note (its
\* target still being in the store); the step that persists it leaves every
\* monitor row as it was.
C4_RobotsGate ==
  /\ [](\A r \in Runs :
          runs[r].robots = "disallowed" =>
            /\ ~runs[r].fetched
            /\ runs[r].notified = "no"
            /\ runs[r].baseWrites = 0 /\ runs[r].okRows = 0 /\ runs[r].errRows = 0
            /\ (runs[r].pc \in Ended /\ runs[r].cancel # "delete")
                 => (runs[r].pc = "done" /\ runs[r].blockedRows = 1))
  /\ [][\A r \in Runs :
          (runs[r].pc = "blocked" /\ runs'[r].pc # "blocked") =>
            /\ monitors' = monitors
            /\ runs'[r].pc = "done" =>
                 /\ Appended(results, results')
                 /\ LastRow(results').note = "Blocked by robots.txt"
                 /\ LastRow(results').monitor_id = runs[r].target]_vars

\* C4 witness: after a successful check the robots policy changed; the next
\* run was blocked, its row is in the store and the baseline is still there
C4_Witness ==
  \E r \in Runs :
    /\ runs[r].robots = "disallowed" /\ runs[r].pc = "done" /\ runs[r].blockedRows = 1
    /\ monitors[runs[r].target].exists
    /\ monitors[runs[r].target].last_checked_at # None
    /\ \E i, j \in 1..Len(results) :
         /\ i < j
         /\ results[i].note = "" /\ results[i].monitor_id = runs[r].target
         /\ monitors[runs[r].target].last_checked_at = <<"at", results[i].run>>
         /\ results[j].run = r /\ results[j].note = "Blocked by robots.txt"

\* C5: when the fetch raises, the run writes no baseline and no success row and
\* sends nothing; neither that step nor the handler changes any monitor row
\* (baseline, is_active) or the scheduler's jobs; the handler appends one
\* CheckResult with an error note and the run ends with exactly that row (its
\* target still being in the store).
C5_FetchFailure ==
  /\ [](\A r \in Runs :
          runs[r].failure = "fetch" =>
            /\ runs[r].baseWrites = 0 /\ runs[r].okRows = 0 /\ runs[r].blockedRows = 0
            /\ runs[r].notified = "no"
            /\ (runs[r].pc \in Ended /\ runs[r].cancel # "delete")
                 => (runs[r].pc = "done" /\ runs[r].errRows = 1))
  /\ [][\A r \in Runs :
          (runs'[r].failure = "fetch" /\ runs'[r].pc # runs[r].pc) =>
            /\ monitors' = monitors
            /\ jobs' = jobs
            /\ runs'[r].pc = "done" =>
                 /\ Appended(results, results')
                 /\ LastRow(results').note = "Error"
                 /\ LastRow(results').monitor_id = runs[r].target]_vars

\* C5 witness: a fetch failure after an earlier successful check; the error
\* row is written, the target is active, scheduled, and keeps its baseline
C5_Witness ==
  \E r \in Runs :
    /\ runs[r].failure = "fetch" /\ runs[r].pc = "done" /\ runs[r].errRows = 1
    /\ monitors[runs[r].target].exists
    /\ monitors[runs[r].target].is_active
    /\ HasJob(jobs, runs[r].target)
    /\ monitors[runs[r].target].last_checked_at # None
    /\ \E i, j \in 1..Len(results) :
         /\ i < j
         /\ results[i].note = "" /\ results[i].monitor_id = runs[r].target
         /\ monitors[runs[r].target].last_checked_at = <<"at", results[i].run>>
         /\ results[j].run = r /\ results[j].note = "Error"

\* C6: two (or more) timer fires that find the previous run of the target
\* still executing leave exactly one run of the job submitted: the running
\* one during the busy window, one catch-up run once it has ended.
C6_CoalescedCatchUp ==
  \A id \in Ids : missed[id] >= 2 => instances[id] = 1

\* C7: a check started by a timer fire saw its target present and active, and
\* a run in flight when its target was deactivated or deleted still returns
\* and has persisted its CheckResult.
C7_Cancellation ==
  /\ \A r \in Runs :
       (runs[r].trigger = "timer" /\ runs[r].pc \in InFlight)
         => (runs[r].mon.exists /\ runs[r].mon.is_active)
  /\ \A r \in Runs :
       (runs[r].cancel # "none" /\ runs[r].pc \in Ended)
         => (runs[r].pc = "done" /\ RowsOf(r) >= 1)

\* the notification test read off a CheckResult
RowNotifiable(row) ==
  row.material_change \/ row.severity \in {"medium", "high"} \/ row.changed_text
    \/ row.changed_visual

RowStored(r) == \E i \in 1..Len(results) : results[i] = runs[r].row

\* C8: a run calls the notifier if and only if it committed its success row
\* and that row has material_change, or severity medium or high, or
\* changed_text, or changed_visual; the call comes after the commit of the row
\* and the baseline; a blocked run or a run that failed before its commit calls
\* nothing, and no run with an error note has delivered a notification.
C8_NotifyIff ==
  /\ [](\A r \in Runs :
          /\ runs[r].notified # "no" => (runs[r].okRows = 1 /\ RowNotifiable(runs[r].row))
          /\ (runs[r].pc \in Ended /\ runs[r].okRows = 1 /\ RowStored(r)
                /\ RowNotifiable(runs[r].row)) => runs[r].notified # "no"
          /\ (runs[r].blockedRows > 0 \/ runs[r].failure \in {"fetch", "commit"})
               => runs[r].notified = "no"
          /\ runs[r].errRows > 0 => runs[r].notified # "sent")
  /\ [][\A r \in Runs :
          runs'[r].notified # runs[r].notified =>
            (runs[r].pc = "notify" /\ runs[r].okRows = 1 /\ runs[r].baseWrites = 1)]_vars

\* C8 witness: a second check with the text unchanged, whose verdict has
\* severity medium and material_change false, was notified; the first check
\* was notified for its changed text
C8_Witness ==
  \E r \in Runs :
    /\ runs[r].pc = "done" /\ runs[r].notified = "sent"
    /\ ~runs[r].row.changed_text /\ ~runs[r].row.changed_visual
    /\ ~runs[r].row.material_change /\ runs[r].row.severity = "medium"

RowLikely(row) ==
  LET changes == JsonLoads(row.changes_json)
  IN  \/ row.changed_text
      \/ row.changed_visual
      \/ Len(changes.added) + Len(changes.removed) + Len(changes.modified) > 0

\* C9: the classifier is called in a run only when the text changed, or the
\* screenshot changed, or one of the filtered added/removed/modified lists is
\* non-empty; on an unchanged page it is not called and the row records
\* material_change false, severity none and an empty summary.
C9_ClassifierOnlyOnChange ==
  \A r \in Runs :
    runs[r].row.status_code = 200 =>
      /\ runs[r].llmCalled => RowLikely(runs[r].row)
      /\ ~RowLikely(runs[r].row) =>
           /\ ~runs[r].llmCalled
           /\ ~runs[r].row.material_change
           /\ runs[r].row.severity = "none"
           /\ runs[r].row.semantic_summary = EmptyStr

\* C9 witness: the provider is configured; the first check called it, the
\* second one found the page unchanged and did not
C9_Witness ==
  /\ LLM_ENABLED
  /\ \E r1, r2 \in Runs :
       /\ runs[r1].pc = "done" /\ runs[r1].llmCalled /\ runs[r1].okRows = 1
       /\ runs[r2].pc = "done" /\ ~runs[r2].llmCalled /\ runs[r2].okRows = 1
       /\ ~RowLikely(runs[r2].row)

\* C10: for every text t, classify_material_change(t, t) is (false, "none").
C10_IdenticalNotMaterial ==
  (clsOut # ClsIdle /\ clsOld = clsNew) => clsOut = <<FALSE, "none">>

\* a family counts as different when the existence of a match, or the text it
\* captures, differs between old and new
FamilyDiffers(re, old, new) == Search(re, old, 0).group # Search(re, new, 0).group

\* C11: for every pair (old, new) the result of classify_material_change is
\* the first rule that applies, each family being different exactly when the
\* existence of a match or its capture differs: stock or price -> (TRUE,
\* high); else date -> (TRUE, medium); else call-to-action -> (TRUE, low);
\* else (FALSE, none). Stated for old # new; identical texts are C10.
C11_DecisionTable ==
  (clsOut # ClsIdle /\ clsOld # clsNew) =>
    clsOut = IF FamilyDiffers(STOCK_RE, clsOld, clsNew) \/ FamilyDiffers(PRICE_RE, clsOld, clsNew)
                  \/ FindallPrice(clsOld) # FindallPrice(clsNew)
             THEN <<TRUE, "high">>
             ELSE IF FamilyDiffers(DATE_RE, clsOld, clsNew) THEN <<TRUE, "medium">>
             ELSE IF FamilyDiffers(CTA_RE, clsOld, clsNew) THEN <<TRUE, "low">>
             ELSE <<FALSE, "none">>

\* C12: a check that qualifies for classification whose provider is not
\* configured, or whose provider call failed, records the verdict of the rule
\* engine on (baseline text, new text).
C12_RuleEngineFallback ==
  \A r \in Runs :
    (runs[r].pc = "commit" /\ runs[r].llmCalled /\ (~LLM_ENABLED \/ runs[r].llmFailed)) =>
      <<runs[r].row.material_change, runs[r].row.severity>>
        = classify_material_change(runs[r].mon.last_text, runs[r].base.text)

\* C13: a run whose provider call failed records the neutral verdict
\* (material_change false, severity none, empty summary), is not turned into
\* a failed check by it, and ends having persisted its success CheckResult
\* (empty note) and written the baseline.
C13_ProviderFailureNeutral ==
  \A r \in Runs :
    runs[r].llmFailed =>
      /\ ~runs[r].row.material_change
      /\ runs[r].row.severity = "none"
      /\ runs[r].row.semantic_summary = EmptyStr
      /\ runs[r].row.note = "" /\ runs[r].row.status_code = 200
      /\ runs[r].failure \notin {"fetch", "commit"}
      /\ runs[r].pc \in InFlight \cup Ended
      /\ runs[r].pc \in Ended =>
           /\ runs[r].okRows = 1 /\ runs[r].baseWrites = 1
           /\ \E i \in 1..Len(results) : results[i] = runs[r].row

\* C13 witness: the provider is configured, its call raised, and the run
\* returned with its success row stored and no error row
C13_Witness ==
  /\ LLM_ENABLED
  /\ \E r \in Runs :
       /\ runs[r].llmFailed /\ runs[r].pc = "done"
       /\ runs[r].okRows = 1 /\ runs[r].errRows = 0
       /\ monitors[runs[r].target].last_checked_at = <<"at", r>>

\* C14: no exception leaves run_check: every invocation that has ended has
\* returned to its caller, whatever failed inside it (the commit included).
C14_NothingEscapes ==
  \A r \in Runs : runs[r].pc # "escaped"

\* C15: a run that committed its result and whose notification raised records
\* no error CheckResult, and its stored result stays as committed.
C15_NotifyFailureNotSurfaced ==
  \A r \in Runs :
    (runs[r].notified = "raised" /\ runs[r].cancel = "none") =>
      /\ runs[r].errRows = 0
      /\ \E i \in 1..Len(results) : results[i] = runs[r].row

\* occurrences of b in a list
Count(items, b) == Cardinality({i \in 1..Len(items) : items[i] = b})
ItemsOf(items) == {items[i] : i \in 1..Len(items)}
PathSet(items) == {items[i].path : i \in 1..Len(items)}
HashesAt(items, path) == {items[i].hash : i \in {j \in 1..Len(items) : items[j].path = path}}

\* C16: diff_blocks(prev, curr) returns as added exactly the blocks of curr
\* whose path no block of prev has, as removed exactly the blocks of prev whose
\* path no block of curr has, and as modified exactly the blocks of curr at a
\* path of both whose hash is not a hash of prev's blocks at that path.
C16_DiffBlocks ==
  fnOut # FnIdle /\ DOMAIN fnArgs = {"prev", "curr"} =>
    LET prev == fnArgs.prev
        curr == fnArgs.curr
    IN  \A b \in DiffBlocks \cup ItemsOf(fnOut.added) \cup ItemsOf(fnOut.removed)
                   \cup ItemsOf(fnOut.modified) :
          /\ Count(fnOut.added, b) =
               IF b.path \notin PathSet(prev) THEN Count(curr, b) ELSE 0
          /\ Count(fnOut.removed, b) =
               IF b.path \notin PathSet(curr) THEN Count(prev, b) ELSE 0
          /\ Count(fnOut.modified, b) =
               IF /\ b.path \in PathSet(prev)
                  /\ b.path \in PathSet(curr)
                  /\ b.hash \notin HashesAt(prev, b.path)
               THEN Count(curr, b) ELSE 0

\* C16 witness: two blocks of one path in the other order; nothing is modified
C16_Witness ==
  /\ fnOut # FnIdle /\ DOMAIN fnArgs = {"prev", "curr"}
  /\ Len(fnArgs.prev) = 2
  /\ fnArgs.prev[1].path = fnArgs.prev[2].path
  /\ fnArgs.prev[1].hash # fnArgs.prev[2].hash
  /\ fnArgs.curr = <<fnArgs.prev[2], fnArgs.prev[1]>>
  /\ fnOut = NoChanges

\* run r computed its result from the baseline that a run q committed, that
\* baseline holds what q observed, and the fetcher returned to r the page and
\* screenshot it had returned to q
SameAsPrevious(r) ==
  /\ runs[r].pc \in {"commit", "notify"}
  /\ \E q \in Runs \ {r} :
       /\ runs[q].okRows = 1
       /\ runs[r].mon.last_checked_at = <<"at", q>>
       /\ runs[r].mon.last_text = normalize_text_block(runs[q].seen[1].text)
       /\ runs[r].mon.last_blocks_json
            = JsonDumps(extract_blocks_from_html(runs[q].seen[1].html))
       /\ (runs[q].seen[2] # NoShot => runs[r].mon.last_image_hash = image_hash(runs[q].seen[2]))
       /\ runs[r].seen = runs[q].seen

\* C17: the second of two consecutive successful checks that observed the
\* same markup and screenshot records changed_text false, changed_visual
\* false, empty added/removed/modified lists and a text-change ratio of 0,
\* calls no classifier, and returns without notifying.
C17_Idempotence ==
  /\ [](\A r \in Runs :
          SameAsPrevious(r) =>
            /\ ~runs[r].row.changed_text
            /\ ~runs[r].row.changed_visual
            /\ JsonLoads(runs[r].row.changes_json) = NoChanges
            /\ runs[r].row.text_change_ratio = <<0, 1>>
            /\ ~runs[r].llmCalled
            /\ runs[r].notified = "no")
  /\ [][\A r \in Runs :
          (SameAsPrevious(r) /\ runs[r].pc = "notify" /\ runs'[r].pc # "notify")
            => (runs'[r].pc = "done" /\ runs'[r].notified = "no")]_vars

\* C17 witness: a rendered page with blocks and a price, checked twice; the
\* second check has stored its row and returned
C17_Witness ==
  \E r \in Runs, i \in 1..Len(results) :
    /\ runs[r].pc = "done" /\ runs[r].okRows = 1 /\ runs[r].notified = "no"
    /\ runs[r].seen = <<PageSale10, <<10, 200>> >>
    /\ \E q \in Runs \ {r} : runs[q].okRows = 1 /\ runs[q].seen = runs[r].seen
    /\ results[i].run = r /\ results[i].note = ""
    /\ ~results[i].changed_text /\ JsonLoads(results[i].changes_json) = NoChanges

FilterKinds == {"added", "removed", "modified"}
FilterApplied == fnOut # FnIdle /\ DOMAIN fnArgs = {"changes", "keep_max"}

\* C18: filter_relevant(changes, keep_max), keep_max a count, returns at most
\* keep_max items in each of added, removed and modified, and every item it
\* returns in a category is an item of that category of changes, no more
\* often than it occurs there.
C18_FilterBounded ==
  FilterApplied =>
    \A k \in FilterKinds :
      /\ Len(fnOut[k]) <= fnArgs.keep_max
      /\ \A b \in ItemsOf(fnOut[k]) : Count(fnOut[k], b) <= Count(fnArgs.changes[k], b)

\* C18 witness: three added blocks and keep_max 2: two are kept
C18_Witness ==
  /\ FilterApplied
  /\ Len(fnArgs.changes.added) = 3 /\ fnArgs.keep_max = 2
  /\ Len(fnOut.added) = 2
  /\ Len(fnArgs.changes.removed) = 1 /\ fnOut.removed = fnArgs.changes.removed

\* the score as the ordering rule states it
RuleScore(b) ==
  b.weight
    + (CASE b.type = "price" -> 5 [] b.type = "headline" -> 3 [] b.type = "list_item" -> 2
         [] OTHER -> 0)
    - (IF TextLen(b.text) < 12 THEN 2 ELSE 0)

\* position of items[i] in the stable descending order
RankOf(items, i) ==
  1 + Cardinality({j \in 1..Len(items) :
                     \/ RuleScore(items[j]) > RuleScore(items[i])
                     \/ RuleScore(items[j]) = RuleScore(items[i]) /\ j < i})

\* C19: each category of the result is the category of changes in
\* descending score, blocks of equal score in their input order, cut after
\* the keep_max first ones; a price block precedes every block of the same
\* weight and length class whose type has a smaller bonus.
C19_FilterOrder ==
  FilterApplied =>
    \A k \in FilterKinds :
      LET items == fnArgs.changes[k]
          out == fnOut[k]
      IN  /\ Len(out) = IF Len(items) < fnArgs.keep_max THEN Len(items) ELSE fnArgs.keep_max
          /\ \A i \in 1..Len(items) :
               RankOf(items, i) <= fnArgs.keep_max => out[RankOf(items, i)] = items[i]
          /\ \A x, y \in 1..Len(out) :
               (/\ out[x].type = "price" /\ out[y].type # "price"
                /\ out[x].weight = out[y].weight
                /\ (TextLen(out[x].text) < 12) = (TextLen(out[y].text) < 12)) => x < y

\* C19 witness: the headline and the list item have the same score and keep
\* their input order behind the price block that came last
C19_Witness ==
  /\ FilterApplied
  /\ fnArgs.changes.added = <<F_Item, F_Head, F_Price>>
  /\ fnArgs.keep_max = 2
  /\ fnOut.added = <<F_Price, F_Item>>

\* C20: whatever sequence of create, toggle, delete and restart (load_schedules)
\* has run, the scheduler holds at most one job monitor-<id> for every id, and
\* schedule_monitor applied twice for an id leaves the jobs that applying it
\* once leaves.
C20_OneJobPerTarget ==
  \A id \in Ids :
    /\ Cardinality({i \in 1..Len(jobs) : jobs[i].id = id}) <= 1
    /\ LET once == schedule_monitor(jobs, id)
           twice == schedule_monitor(once, id)
       IN  [i \in 1..Len(twice) |-> twice[i].id] = [i \in 1..Len(once) |-> once[i].id]

\* C20 witness: schedule_monitor ran for a target whose job was in the store
\* (a toggle back on after a toggle off that removed nothing); one job is there
C20_Witness ==
  \E id \in Ids :
    /\ monitors[id].exists /\ monitors[id].is_active /\ togglePending[id] = "none"
    /\ \E i \in 1..Len(jobs) : jobs[i].id = id /\ jobs[i].replaced
    /\ Cardinality({i \in 1..Len(jobs) : jobs[i].id = id}) = 1

\* the screenshot whose fingerprint is the baseline's, if there is one
BaselineShot(mon) ==
  IF \E s \in Shots : image_hash(s) = mon.last_image_hash
  THEN CHOOSE s \in Shots : image_hash(s) = mon.last_image_hash
  ELSE NoShot

\* C21: a check reports changed_visual exactly when a screenshot was captured
\* and the Hamming distance between the bit signature of the new screenshot
\* and that of the baseline screenshot is at or above the threshold; stated
\* for the runs without a screenshot and for those whose target has a baseline
\* screenshot to compare with.
C21_VisualThreshold ==
  \A r \in Runs :
    (/\ runs[r].pc = "commit"
     /\ (runs[r].seen[2] = NoShot \/ BaselineShot(runs[r].mon) # NoShot)) =>
      (runs[r].row.changed_visual <=>
         /\ runs[r].seen[2] # NoShot
         /\ hamming64(ahash(runs[r].seen[2]), ahash(BaselineShot(runs[r].mon)))
              >= VISUAL_HAMMING_THRESHOLD)

\* C22: CheckResults are deleted with their target: while a target id has no
\* row in the store (it was deleted and not created again), the store holds no
\* CheckResult with that monitor_id, whatever runs were in flight at the delete.
C22_CascadeDelete ==
  \A id \in Ids :
    ~monitors[id].exists => \A i \in 1..Len(results) : results[i].monitor_id # id

\* one minus the similarity, tabulated for the texts of the pages
ChangeRatioOf == [old \in PageTexts, new \in PageTexts |-> text_change_ratio(old, new)]

\* C23: the text-change ratio a check records is one minus the sequence
\* similarity of (baseline text, new text): 0 for identical texts, 1 for texts
\* with nothing in common; stated for the checks of a target that has a
\* baseline from an earlier successful check.
C23_TextChangeRatio ==
  \A r \in Runs :
    (runs[r].pc = "commit" /\ runs[r].mon.last_checked_at # None) =>
      runs[r].row.text_change_ratio = ChangeRatioOf[runs[r].mon.last_text, runs[r].base.text]

\* ------------------------------------------------------------------ extraction alone
MaxExtractLen == 3

E_H1    == block(<<"Sale">>, "headline", "main > h1:nth-of-type(1)", 10)
E_H2    == block(<<"Sale">>, "headline", "main > h2:nth-of-type(1)", 8)
E_News  == block(<<"News">>, "headline", "main > h2:nth-of-type(2)", 8)
E_Item  == block(<<"Sale">>, "list_item", "main > ul > li:nth-of-type(1)", 5)
E_P10   == block(<<"$10">>, "price", "text-scan", 9)
E_P20   == block(<<"$20">>, "price", "text-scan", 9)
ExtractBlocks == {E_H1, E_H2, E_News, E_Item, E_P10, E_P20}

\* extractor.py:91-111: headings are appended first, then paragraphs, list
\* items, prices and dates
TypeRank(type) ==
  CASE type = "headline"  -> 1
    [] type = "paragraph" -> 2
    [] type = "list_item" -> 3
    [] type = "price"     -> 4
    [] type = "date"      -> 5

\* the candidate lists the selectors and scans can produce
Candidates ==
  {html \in SeqsUpTo(ExtractBlocks, MaxExtractLen) :
     \A i \in 1..Len(html), j \in 1..Len(html) :
       i < j => TypeRank(html[i].type) <= TypeRank(html[j].type)}

InitExtract ==
  /\ InitIdle
  /\ fnArgs \in [html : Candidates]
  /\ fnOut = FnIdle

Extract ==
  /\ fnOut = FnIdle
  /\ fnOut' = [uniq |-> extract_blocks_from_html(fnArgs.html)]
  /\ UNCHANGED <<fnArgs, checkVars, clsVars>>

NextExtract == Extract

SpecExtract == InitExtract /\ [][NextExtract]_vars

\* the (type, text) pair of a block
KeyOf(b) == <<b.type, b.text>>

\* the positions of a list that hold the first block of their (type, text) pair
FirstPositions(html) ==
  {i \in 1..Len(html) : \A j \in 1..(i - 1) : KeyOf(html[j]) # KeyOf(html[i])}

\* the k-th smallest member of a set of numbers
KthOf(S, k) == CHOOSE x \in S : Cardinality({y \in S : y < x}) = k - 1

\* C24: no two blocks returned by extract_blocks_from_html share both type
\* and text, and the returned blocks are, in extraction order, the first
\* occurrences of each (type, text) pair among the candidates.
C24_ExtractDedup ==
  (fnOut # FnIdle /\ DOMAIN fnArgs = {"html"}) =>
    LET html == fnArgs.html
        uniq == fnOut.uniq
    IN  /\ \A i \in 1..Len(uniq), j \in 1..Len(uniq) :
             i # j => KeyOf(uniq[i]) # KeyOf(uniq[j])
        /\ Len(uniq) = Cardinality(FirstPositions(html))
        /\ \A k \in 1..Len(uniq) : uniq[k] = html[KthOf(FirstPositions(html), k)]

\* C24 witness: two headings with the same text at different paths, then a
\* price; the first heading and the price are returned
C24_Witness ==
  /\ fnOut # FnIdle /\ DOMAIN fnArgs = {"html"}
  /\ fnArgs.html = <<E_H1, E_H2, E_P10>>
  /\ fnOut.uniq = <<E_H1, E_P10>>

\* C25: the diff payload a successful check records is filter_relevant of
\* diff_blocks of (baseline block set, current block set), also when the
\* current extraction is empty: the baseline blocks are then reported as
\* removed and the check qualifies for classification.
C25_DiffPayload ==
  \A r \in Runs :
    runs[r].pc = "commit" =>
      LET prev_blocks == JsonLoads(runs[r].mon.last_blocks_json)
          new_blocks  == JsonLoads(runs[r].base.blocks_json)
      IN  /\ runs[r].row.changes_json
               = JsonDumps(filter_relevant(diff_blocks(prev_blocks, new_blocks), KEEP_MAX))
          /\ (Len(prev_blocks) > 0 /\ Len(new_blocks) = 0) => runs[r].llmCalled

\* C26: once a target has had a successful check, its baseline is that of one
\* check: last_content_hash is text_hash(last_text), and last_text and
\* last_blocks_json are the normalized text and the serialized blocks of the
\* page one successful check of the target was served.
C26_BaselineConsistent ==
  \A id \in Ids :
    (monitors[id].exists /\ monitors[id].last_checked_at # None) =>
      /\ monitors[id].last_content_hash = text_hash(monitors[id].last_text)
      /\ \E q \in Runs :
           /\ runs[q].target = id /\ runs[q].okRows = 1
           /\ monitors[id].last_text = normalize_text_block(runs[q].seen[1].text)
           /\ monitors[id].last_blocks_json
                = JsonDumps(extract_blocks_from_html(runs[q].seen[1].html))

\* C27: run_check for a target id that has no row, or whose is_active is
\* false when the run loads it, returns at once: no robots lookup, no fetch,
\* no CheckResult, no change of the store, no notification.
C27_InactiveNoOp ==
  /\ [](\A r \in Runs :
          (runs[r].pc \in Ended /\ ~runs[r].passed) =>
            /\ runs[r].pc = "done"
            /\ runs[r].robots = "unasked" /\ ~runs[r].fetched
            /\ runs[r].okRows = 0 /\ runs[r].errRows = 0 /\ runs[r].blockedRows = 0
            /\ runs[r].baseWrites = 0
            /\ runs[r].notified = "no")
  /\ [][\A r \in Runs :
          (/\ runs[r].pc = "start"
           /\ (~monitors[runs[r].target].exists \/ ~monitors[runs[r].target].is_active)
           /\ runs'[r].pc # "start")
            => /\ runs'[r].pc = "done" /\ ~runs'[r].passed
               /\ results' = results
               /\ monitors' = monitors]_vars

\* C27 witness: a target that has a CheckResult is deactivated and then run
\* on demand; the run has returned and the store is as it was
C27_Witness ==
  \E r \in Runs :
    /\ runs[r].pc = "done" /\ ~runs[r].passed /\ runs[r].trigger = "api"
    /\ monitors[runs[r].target].exists
    /\ ~monitors[runs[r].target].is_active
    /\ Len(results) = 1

\* C28: the first successful check of a newly created target (the row it
\* loaded has never been checked, its content hash is the empty string)
\* records changed_text = true whatever the page content, an empty page
\* included, and the run goes on to send a notification (while the target's
\* row is in the store).
C28_FirstCheck ==
  /\ [](\A r \in Runs :
          (runs[r].pc \in {"commit", "notify"} /\ runs[r].mon.last_checked_at = None) =>
            runs[r].row.changed_text)
  /\ [][\A r \in Runs :
          (/\ runs[r].pc = "notify"
           /\ runs[r].mon.last_checked_at = None
           /\ runs'[r].pc # "notify"
           /\ monitors[runs[r].target].exists)
            => runs'[r].notified # "no"]_vars

\* C28 witness: the check that create_monitor starts is served an empty page;
\* its row, the first of the store, has changed_text true, and the
\* notification was sent
C28_Witness ==
  \E r \in Runs :
    /\ runs[r].pc = "done" /\ runs[r].trigger = "create" /\ runs[r].okRows = 1
    /\ runs[r].seen[1] = PageEmpty
    /\ Len(results) >= 1 /\ results[1] = runs[r].row
    /\ results[1].changed_text
    /\ runs[r].notified = "sent"
====
